---- MODULE Spec2Model ----
(***************************************************************************)
(* Model of the attention notebook TransKQV_todo.ipynb:                    *)
(*   create_KQV, compute_attention (single head) and multi_head_attention. *)
(*                                                                         *)
(* Numbers.  The notebook computes in numpy float64.  A float is modelled  *)
(* as a decimal floating-point number with a four digit mantissa, every    *)
(* operation rounded to nearest (ties to even), with the range and the     *)
(* special values of float64: results above 1.797e308 become inf, results  *)
(* below 4.941e-324 become 0, and inf/nan propagate as in IEEE 754.  One   *)
(* unit in the last place of 1.0 is therefore 1e-3 here and 2.2e-16 in the *)
(* notebook; tolerances below are counted in such units.                   *)
(*                                                                         *)
(* Arrays are sequences of floats, matrices are sequences of rows.  A      *)
(* Python exception is modelled by the kind of the call's outcome.         *)
(***************************************************************************)
EXTENDS Integers, Sequences, FiniteSets

(***************************************************************************)
(* float64, abstracted to four decimal digits                              *)
(***************************************************************************)
Abs(n) == IF n < 0 THEN -n ELSE n

Sgn(n) == IF n < 0 THEN -1 ELSE IF n = 0 THEN 0 ELSE 1

RECURSIVE Pow10(_)
Pow10(n) == IF n = 0 THEN 1 ELSE 10 * Pow10(n - 1)

RECURSIVE NumDigits(_)
NumDigits(n) == IF n < 10 THEN 1 ELSE 1 + NumDigits(n \div 10)

\* n / d rounded to the nearest integer, ties to even (n >= 0, d > 0)
RoundDivEven(n, d) ==
  LET q == n \div d
      r == n % d
  IN  IF 2 * r > d \/ (2 * r = d /\ q % 2 = 1) THEN q + 1 ELSE q

Fin(m, e) == [k |-> "fin", m |-> m, e |-> e]

Zero == Fin(0, 0)

PosInf == [k |-> "inf", m |-> 0, e |-> 0]

NegInf == [k |-> "ninf", m |-> 0, e |-> 0]

NaN == [k |-> "nan", m |-> 0, e |-> 0]

SignedInf(s) == IF s < 0 THEN NegInf ELSE PosInf

\* the float nearest to s * n * 10^e  (s = +1 or -1, n >= 0)
Norm(s, n, e) ==
  IF n = 0 THEN Zero
  ELSE
    LET k  == NumDigits(n)
        q  == IF k > 4 THEN RoundDivEven(n, Pow10(k - 4)) ELSE n * Pow10(4 - k)
        m  == IF q = 10000 THEN 1000 ELSE q
        ex == IF q = 10000 THEN e + (k - 4) + 1 ELSE e + (k - 4)
    IN  IF ex > 305 \/ (ex = 305 /\ m > 1797) THEN SignedInf(s)
        ELSE IF ex < -327 \/ (ex = -327 /\ m < 4941) THEN Zero
        ELSE Fin(s * m, ex)

\* Python literals: an integer n, and the decimal n * 10^e
Num(n) == Norm(Sgn(n), Abs(n), 0)

Dec(n, e) == Norm(Sgn(n), Abs(n), e)

IsNaN(a) == a.k = "nan"

IsFinite(a) == a.k = "fin"

FSign(a) == IF a.k = "inf" THEN 1 ELSE IF a.k = "ninf" THEN -1 ELSE Sgn(a.m)

FNeg(a) ==
  IF a.k = "fin" THEN Fin(-a.m, a.e)
  ELSE IF a.k = "inf" THEN NegInf
  ELSE IF a.k = "ninf" THEN PosInf
  ELSE NaN

FMul(a, b) ==
  IF IsNaN(a) \/ IsNaN(b) THEN NaN
  ELSE IF ~IsFinite(a) \/ ~IsFinite(b)
    THEN IF FSign(a) = 0 \/ FSign(b) = 0 THEN NaN
         ELSE SignedInf(FSign(a) * FSign(b))
  ELSE Norm(Sgn(a.m) * Sgn(b.m), Abs(a.m) * Abs(b.m), a.e + b.e)

\* numpy true division: x/0 is +-inf and 0/0 is nan (a warning, no exception)
FDiv(a, b) ==
  IF IsNaN(a) \/ IsNaN(b) THEN NaN
  ELSE IF ~IsFinite(a)
    THEN IF ~IsFinite(b) THEN NaN
         ELSE SignedInf(IF FSign(b) < 0 THEN -FSign(a) ELSE FSign(a))
  ELSE IF ~IsFinite(b) THEN Zero
  ELSE IF b.m = 0
    THEN IF a.m = 0 THEN NaN ELSE SignedInf(Sgn(a.m))
  ELSE IF a.m = 0 THEN Zero
  ELSE
    LET n == Abs(a.m) * 10000
        d == Abs(b.m)
        s == Sgn(a.m) * Sgn(b.m)
    IN  IF n \div d >= 10000
          THEN Norm(s, RoundDivEven(n, 10 * d), a.e - b.e - 3)
          ELSE Norm(s, RoundDivEven(n, d), a.e - b.e - 4)

FAdd(a, b) ==
  IF IsNaN(a) \/ IsNaN(b) THEN NaN
  ELSE IF ~IsFinite(a)
    THEN IF ~IsFinite(b) /\ a.k # b.k THEN NaN ELSE a
  ELSE IF ~IsFinite(b) THEN b
  ELSE IF a.m = 0 THEN b
  ELSE IF b.m = 0 THEN a
  ELSE IF a.e - b.e > 5 THEN a
  ELSE IF b.e - a.e > 5 THEN b
  ELSE
    LET e == IF a.e < b.e THEN a.e ELSE b.e
        t == a.m * Pow10(a.e - e) + b.m * Pow10(b.e - e)
    IN  Norm(Sgn(t), Abs(t), e)

\* a < b on floats; every comparison with nan is false
FLt(a, b) ==
  IF IsNaN(a) \/ IsNaN(b) THEN FALSE
  ELSE IF a.k = "inf" \/ b.k = "ninf" THEN FALSE
  ELSE IF a.k = "ninf" \/ b.k = "inf" THEN TRUE
  ELSE IF a.m < 0 /\ b.m >= 0 THEN TRUE
  ELSE IF a.m >= 0 /\ b.m <= 0 THEN FALSE
  ELSE IF a.m = 0 THEN TRUE
  ELSE IF a.m > 0 THEN a.e < b.e \/ (a.e = b.e /\ a.m < b.m)
  ELSE a.e > b.e \/ (a.e = b.e /\ a.m < b.m)

FLe(a, b) == ~IsNaN(a) /\ ~IsNaN(b) /\ ~FLt(b, a)

\* exp(x) correctly rounded, for the arguments the model's inputs can produce:
\* <<m, e, rm, re>> reads exp(m * 10^e) = rm * 10^re
ExpTable ==
  {
    <<-7092, -1, 9962, -312>>, <<-6028, -1, 1612, -265>>, <<-5035, -1, 2151, -222>>,
    <<-3688, -1, 6795, -164>>, <<-2837, -1, 6175, -127>>, <<-8000, -3, 3355, -7>>,
    <<-6000, -3, 2479, -6>>, <<-4340, -3, 1304, -5>>, <<-4000, -3, 1832, -5>>,
    <<-3840, -3, 2149, -5>>, <<-3000, -3, 4979, -5>>, <<-2680, -3, 6856, -5>>,
    <<-2620, -3, 7280, -5>>, <<-2170, -3, 1142, -4>>, <<-2000, -3, 1353, -4>>,
    <<-1920, -3, 1466, -4>>, <<-1700, -3, 1827, -4>>, <<-1500, -3, 2231, -4>>,
    <<-1420, -3, 2417, -4>>, <<-1340, -3, 2618, -4>>, <<-1310, -3, 2698, -4>>,
    <<-1290, -3, 2753, -4>>, <<-1250, -3, 2865, -4>>, <<-1235, -3, 2908, -4>>,
    <<-1191, -3, 3039, -4>>, <<-1085, -3, 3379, -4>>, <<-1040, -3, 3535, -4>>,
    <<-1000, -3, 3679, -4>>, <<-9600, -4, 3829, -4>>, <<-8500, -4, 4274, -4>>,
    <<-8242, -4, 4386, -4>>, <<-8211, -4, 4399, -4>>, <<-8103, -4, 4447, -4>>,
    <<-8000, -4, 4493, -4>>, <<-7610, -4, 4672, -4>>, <<-7100, -4, 4916, -4>>,
    <<-6800, -4, 5066, -4>>, <<-6700, -4, 5117, -4>>, <<-6600, -4, 5169, -4>>,
    <<-6550, -4, 5194, -4>>, <<-5428, -4, 5811, -4>>, <<-5200, -4, 5945, -4>>,
    <<-5000, -4, 6065, -4>>, <<-4686, -4, 6259, -4>>, <<-4250, -4, 6538, -4>>,
    <<-4000, -4, 6703, -4>>, <<-3550, -4, 7012, -4>>, <<-2600, -4, 7711, -4>>,
    <<-2000, -4, 8187, -4>>, <<-5640, -6, 9944, -4>>, <<-4230, -6, 9958, -4>>,
    <<-3060, -6, 9969, -4>>, <<-2820, -6, 9972, -4>>, <<-2707, -6, 9973, -4>>,
    <<-1889, -6, 9981, -4>>, <<-1847, -6, 9982, -4>>, <<-1410, -6, 9986, -4>>,
    <<-1198, -6, 9988, -4>>, <<-1001, -6, 9990, -4>>, <<-7332, -7, 9993, -4>>,
    <<-5640, -7, 9994, -4>>, <<0, 0, 1000, -3>>, <<5640, -7, 1001, -3>>,
    <<7332, -7, 1001, -3>>, <<1001, -6, 1001, -3>>, <<1198, -6, 1001, -3>>,
    <<1410, -6, 1001, -3>>, <<1847, -6, 1002, -3>>, <<1889, -6, 1002, -3>>,
    <<2707, -6, 1003, -3>>, <<2820, -6, 1003, -3>>, <<3060, -6, 1003, -3>>,
    <<4230, -6, 1004, -3>>, <<5640, -6, 1006, -3>>, <<2000, -4, 1221, -3>>,
    <<2600, -4, 1297, -3>>, <<3550, -4, 1426, -3>>, <<4000, -4, 1492, -3>>,
    <<4250, -4, 1530, -3>>, <<4686, -4, 1598, -3>>, <<5000, -4, 1649, -3>>,
    <<5200, -4, 1682, -3>>, <<5428, -4, 1721, -3>>, <<6550, -4, 1925, -3>>,
    <<6600, -4, 1935, -3>>, <<6700, -4, 1954, -3>>, <<6800, -4, 1974, -3>>,
    <<7100, -4, 2034, -3>>, <<7610, -4, 2140, -3>>, <<8000, -4, 2226, -3>>,
    <<8103, -4, 2249, -3>>, <<8211, -4, 2273, -3>>, <<8242, -4, 2280, -3>>,
    <<8500, -4, 2340, -3>>, <<9600, -4, 2612, -3>>, <<1000, -3, 2718, -3>>,
    <<1040, -3, 2829, -3>>, <<1085, -3, 2959, -3>>, <<1191, -3, 3290, -3>>,
    <<1235, -3, 3438, -3>>, <<1250, -3, 3490, -3>>, <<1290, -3, 3633, -3>>,
    <<1310, -3, 3706, -3>>, <<1340, -3, 3819, -3>>, <<1420, -3, 4137, -3>>,
    <<1500, -3, 4482, -3>>, <<1700, -3, 5474, -3>>, <<1920, -3, 6821, -3>>,
    <<2000, -3, 7389, -3>>, <<2170, -3, 8758, -3>>, <<2620, -3, 1374, -2>>,
    <<2680, -3, 1459, -2>>, <<3000, -3, 2009, -2>>, <<3840, -3, 4653, -2>>,
    <<4000, -3, 5460, -2>>, <<4340, -3, 7671, -2>>, <<6000, -3, 4034, -1>>,
    <<8000, -3, 2981, 0>>, <<2837, -1, 1619, 120>>, <<3688, -1, 1472, 157>>,
    <<5035, -1, 4648, 215>>, <<6028, -1, 6205, 258>>, <<7092, -1, 1004, 305>>
  }

\* np.exp on one float: overflows to inf above ln(1.797e308) = 709.78 and
\* underflows to 0 below ln(4.941e-324) = -745.13
FExp(x) ==
  IF IsNaN(x) THEN NaN
  ELSE IF x.k = "inf" THEN PosInf
  ELSE IF x.k = "ninf" THEN Zero
  ELSE IF FLt(Dec(7097, -1), x) THEN PosInf
  ELSE IF FLt(x, Dec(-7451, -1)) THEN Zero
  ELSE LET t == CHOOSE t \in ExpTable : t[1] = x.m /\ t[2] = x.e
       IN  Fin(t[3], t[4])

(***************************************************************************)
(* numpy on arrays                                                         *)
(***************************************************************************)
Ok(v) == [ok |-> TRUE, val |-> v]

Err == [ok |-> FALSE, val |-> <<>>]

\* np.sum of a 1-D array: accumulated left to right
RECURSIVE np_sum(_)
np_sum(a) ==
  IF Len(a) = 0 THEN Zero
  ELSE FAdd(np_sum(SubSeq(a, 1, Len(a) - 1)), a[Len(a)])

np_exp(a) == [i \in 1..Len(a) |-> FExp(a[i])]

\* a list of rows converts to a 2-D array only if the rows have one length
IsMatrix(a) == \A i \in 1..Len(a) : Len(a[i]) = Len(a[1])

\* faulty variant: the products summed over the items (axis 0), one entry per
\* feature instead of one per item
np_dot_axis0(a, b) ==
  IF ~IsMatrix(a) THEN Err
  ELSE IF Len(a[1]) # Len(b) THEN Err
  ELSE Ok([j \in 1..Len(b) |->
             np_sum([i \in 1..Len(a) |-> FMul(a[i][j], b[j])])])

\* np.dot(a, b) of a 2-D array (N, d) and a 1-D array (d'): ValueError unless
\* d = d', else the N row-by-vector products
np_dot(a, b) ==
  IF ~IsMatrix(a) THEN Err
  ELSE IF Len(a[1]) # Len(b) THEN Err
  ELSE Ok([i \in 1..Len(a) |->
             np_sum([j \in 1..Len(b) |-> FMul(a[i][j], b[j])])])

\* a * b on 1-D arrays with numpy broadcasting: equal lengths, or one of the
\* two has length 1 and is stretched; ValueError otherwise
np_multiply(a, b) ==
  IF Len(a) = Len(b)
    THEN Ok([i \in 1..Len(a) |-> FMul(a[i], b[i])])
  ELSE IF Len(a) = 1 THEN Ok([i \in 1..Len(b) |-> FMul(a[1], b[i])])
  ELSE IF Len(b) = 1 THEN Ok([i \in 1..Len(a) |-> FMul(a[i], b[1])])
  ELSE Err

\* np.mean(rows, axis=0) of a list of equally long 1-D arrays; the mean of an
\* empty list is the scalar nan
np_mean_axis0(rows) ==
  IF Len(rows) = 0 THEN NaN
  ELSE [i \in 1..Len(rows[1]) |->
          FDiv(np_sum([h \in 1..Len(rows) |-> rows[h][i]]), Num(Len(rows)))]

(***************************************************************************)
(* The notebook's module-level data                                        *)
(***************************************************************************)
books ==
  << [name |-> "Harry Potter",
      embedding |-> <<Dec(9, -1), Dec(8, -1), Dec(3, -1)>>, rating |-> Dec(48, -1)],
     [name |-> "Lord of the Rings",
      embedding |-> <<Dec(8, -1), Dec(9, -1), Dec(2, -1)>>, rating |-> Dec(49, -1)],
     [name |-> "Romeo and Juliet",
      embedding |-> <<Dec(1, -1), Dec(2, -1), Dec(9, -1)>>, rating |-> Dec(45, -1)],
     [name |-> "Sherlock Holmes",
      embedding |-> <<Dec(2, -1), Dec(9, -1), Dec(3, -1)>>, rating |-> Dec(46, -1)],
     [name |-> "Twilight",
      embedding |-> <<Dec(4, -1), Dec(3, -1), Dec(9, -1)>>, rating |-> Dec(40, -1)] >>

\* a module-level name that no cell assigns
Unbound == [bound |-> FALSE, val |-> <<>>]

\* the kernel's namespace once the notebook's cells have run: books is the
\* dictionary above, attention_per_head is assigned nowhere
NotebookGlobals == [books |-> books, attention_per_head |-> Unbound]

(***************************************************************************)
(* The functions                                                           *)
(***************************************************************************)
Raise(kind) == [kind |-> kind, weights |-> <<>>, weighted_sum |-> NaN]

\* faulty variant: the division by the temperature forgotten
attention_scores_undivided(keys, query, temperature) ==
  LET d == np_dot(keys, query)
  IN  IF ~d.ok THEN Err ELSE Ok(d.val)

attention_scores(keys, query, temperature) ==
  LET d == np_dot(keys, query)
  IN  IF ~d.ok THEN Err
      ELSE Ok([i \in 1..Len(d.val) |-> FDiv(d.val[i], temperature)])

\* faulty variant: normalised by the sum of the scores, not of their exponentials
attention_weights_by_scores(scores) ==
  LET e == np_exp(scores)
  IN  [i \in 1..Len(e) |-> FDiv(e[i], np_sum(scores))]

\* faulty variant: the sign of the scores flipped
attention_weights_negated(scores) ==
  LET e == np_exp([i \in 1..Len(scores) |-> FNeg(scores[i])])
  IN  [i \in 1..Len(e) |-> FDiv(e[i], np_sum(e))]

attention_weights(scores) ==
  LET e == np_exp(scores)
  IN  [i \in 1..Len(e) |-> FDiv(e[i], np_sum(e))]

\* faulty variant: np.mean in place of np.sum for the weighted sum
compute_attention_mean(keys, query, values, temperature) ==
  LET s == attention_scores(keys, query, temperature)
  IN  IF ~s.ok THEN Raise("ValueError")
      ELSE LET w == attention_weights(s.val)
               p == np_multiply(values, w)
           IN  IF ~p.ok THEN Raise("ValueError")
               ELSE [kind |-> "ok", weights |-> w,
                     weighted_sum |-> FDiv(np_sum(p.val), Num(Len(p.val)))]

compute_attention(keys, query, values, temperature) ==
  LET s == attention_scores(keys, query, temperature)
  IN  IF ~s.ok THEN Raise("ValueError")
      ELSE LET w == attention_weights(s.val)
               p == np_multiply(values, w)
           IN  IF ~p.ok THEN Raise("ValueError")
               ELSE [kind |-> "ok", weights |-> w, weighted_sum |-> np_sum(p.val)]

\* the hardcoded per-head projection matrices (head index 0 and 1)
projection_matrices ==
  << << <<Dec(8, -1), Dec(2, -1), Zero>>,
        <<Dec(2, -1), Dec(7, -1), Dec(1, -1)>>,
        <<Zero, Dec(1, -1), Dec(9, -1)>> >>,
     << <<Dec(1, -1), Dec(8, -1), Dec(1, -1)>>,
        <<Dec(1, -1), Dec(1, -1), Dec(8, -1)>>,
        <<Dec(8, -1), Dec(1, -1), Dec(1, -1)>> >> >>

RaiseMH(kind) ==
  [kind |-> kind, attention_per_head |-> <<>>, final_ratings |-> <<>>,
   projection_matrices |-> <<>>]

\* The body as it stands: steps 1 to 5 are comments, so attention_per_head is
\* never assigned in the function and Python resolves it, like books, in the
\* module's namespace G.  keys, values and temperature are never read.
multi_head_attention(G, keys, query, values, n_heads, temperature) ==
  LET d_model == Len(query)
      aph     == G.attention_per_head
      nbooks  == Len(G.books)
  IN  IF ~aph.bound THEN RaiseMH("NameError")
      ELSE IF \E h \in 1..n_heads :
                \/ h > Len(aph.val)
                \/ \E i \in 1..nbooks : i > Len(aph.val[h])
        THEN RaiseMH("IndexError")
      ELSE
        LET head_ratings(h) ==
              [i \in 1..nbooks |-> FMul(G.books[i].rating, aph.val[h][i])]
            book_ratings_per_head == [h \in 1..n_heads |-> head_ratings(h)]
            final_ratings == np_mean_axis0(book_ratings_per_head)
        IN  [kind |-> "ok", attention_per_head |-> aph.val,
             final_ratings |-> final_ratings,
             projection_matrices |-> projection_matrices]

\* create_KQV: keys and values read from books, the query is a literal
create_KQV(G) ==
  [keys   |-> [i \in 1..Len(G.books) |-> G.books[i].embedding],
   values |-> [i \in 1..Len(G.books) |-> G.books[i].rating],
   query  |-> <<Dec(8, -1), Dec(7, -1), Dec(2, -1)>>]

(***************************************************************************)
(* Inputs                                                                  *)
(***************************************************************************)
\* the largest number of items in a generated input
MaxN == 2

\* heads asked for: up to one more than there are projection matrices
MaxHeads == Len(projection_matrices) + 1

SeqsUpTo(S, n) == UNION {[1..k -> S] : k \in 1..n}

\* key vectors, of dimension 2 and 3
Vectors ==
  { <<Num(1), Zero>>, <<Zero, Num(1)>>, <<Num(1), Num(1)>>,
    <<Num(-1), Num(-1)>>, <<Num(1), Zero, Zero>> }

Queries == { <<Num(1), Zero>>, <<Num(1), Num(1)>>, <<Num(1), Zero, Zero>> }

ValueScalars == {Num(10), Num(20)}

\* 1.0 (the default), 2.0, 0.00141 (scores near and above the float64 range of
\* exp), 0.0 and -1.0
Temperatures == {Num(1), Num(2), Dec(141, -5), Zero, Num(-1)}

\* temperatures passed to multi_head_attention, which never reads them
HeadTemperatures == {Num(1), Zero}

(***************************************************************************)
(* State: the caller's arrays, the module namespace, and the last call     *)
(***************************************************************************)
VARIABLES keys, query, values, globals, last

vars == <<keys, query, values, globals, last>>

NoCall ==
  [fn |-> "none", keys |-> <<>>, query |-> <<>>, values |-> <<>>,
   temperature |-> Zero, n_heads |-> 0, out |-> [kind |-> "none"]]

Init ==
  /\ keys \in SeqsUpTo(Vectors, MaxN)
  /\ query \in Queries
  /\ values \in SeqsUpTo(ValueScalars, MaxN)
  /\ globals = NotebookGlobals
  /\ last = NoCall

\* keys, query, values = create_KQV()
CreateKQV ==
  LET r == create_KQV(globals)
  IN  /\ keys' = r.keys
      /\ query' = r.query
      /\ values' = r.values
      /\ last' = NoCall
      /\ UNCHANGED globals

\* compute_attention(keys, query, values, temperature): the arguments are
\* only read, every numpy operation of the body allocates its result
CallComputeAttention ==
  \E t \in Temperatures :
    /\ last' = [fn |-> "compute_attention", keys |-> keys, query |-> query,
                values |-> values, temperature |-> t, n_heads |-> 0,
                out |-> compute_attention(keys, query, values, t)]
    /\ UNCHANGED <<keys, query, values, globals>>

\* multi_head_attention(keys, query, values, n_heads, temperature)
CallMultiHeadAttention ==
  \E n \in 1..MaxHeads, t \in HeadTemperatures :
    /\ last' = [fn |-> "multi_head_attention", keys |-> keys, query |-> query,
                values |-> values, temperature |-> t, n_heads |-> n,
                out |-> multi_head_attention(globals, keys, query, values, n, t)]
    /\ UNCHANGED <<keys, query, values, globals>>

Next == CreateKQV \/ CallComputeAttention \/ CallMultiHeadAttention

Spec == Init /\ [][Next]_vars

(***************************************************************************)
(* Vocabulary of the properties                                            *)
(***************************************************************************)
IsCA == last.fn = "compute_attention"

IsMH == last.fn = "multi_head_attention"

N == Len(last.keys)

Items == 1..Len(last.keys)

\* N keys of the query's dimension, N values
ShapesAgree ==
  /\ Len(last.keys) >= 1
  /\ \A i \in 1..Len(last.keys) : Len(last.keys[i]) = Len(last.query)
  /\ Len(last.values) = Len(last.keys)

ValidInput == ShapesAgree /\ FLt(Zero, last.temperature)

\* dot(keys[i], query), item by item
Similarity(i) ==
  np_sum([j \in 1..Len(last.query) |-> FMul(last.keys[i][j], last.query[j])])

\* score[i] = dot(keys[i], query) / temperature
Score(i) == FDiv(Similarity(i), last.temperature)

\* sum_j exp(score[j])
ExpSum == np_sum([j \in Items |-> FExp(Score(j))])

\* the exponentials neither overflow nor all vanish
Stable == IsFinite(ExpSum) /\ ExpSum # Zero

\* a <= p * 10^(-k) and a >= p * 10^(-k), exactly, for a finite float a and
\* an integer p in 1..99999
LeDec(a, p, k) ==
  IF a.m <= 0 THEN TRUE
  ELSE LET s == a.e + k
       IN  IF s >= 0 THEN s <= 4 /\ a.m * Pow10(s) <= p
           ELSE s < -4 \/ a.m <= p * Pow10(-s)

GeDec(a, p, k) ==
  IF a.m <= 0 THEN FALSE
  ELSE LET s == a.e + k
       IN  IF s >= 0 THEN s > 4 \/ a.m * Pow10(s) >= p
           ELSE s >= -4 /\ a.m >= p * Pow10(-s)

\* a * q <= b * p, exactly, for finite floats a, b > 0 and integers p, q
\* in 1..9999 that differ by less than a factor 10
LeScaled(a, q, b, p) ==
  LET d == a.e - b.e
  IN  IF d >= 0 THEN d <= 1 /\ a.m * q * Pow10(d) <= b.m * p
      ELSE d < -1 \/ a.m * q <= b.m * p * Pow10(-d)

\* |sum(w) - 1| is at most Len(w) units in the last place of 1.0
SumsToOne(w) ==
  LET t == np_sum(w)
  IN  /\ IsFinite(t)
      /\ GeDec(t, 1000 - Len(w), 3)
      /\ LeDec(t, 1000 + Len(w), 3)

MinValue == CHOOSE v \in {last.values[i] : i \in 1..Len(last.values)} :
              \A i \in 1..Len(last.values) : FLe(v, last.values[i])

MaxValue == CHOOSE v \in {last.values[i] : i \in 1..Len(last.values)} :
              \A i \in 1..Len(last.values) : FLe(last.values[i], v)

(***************************************************************************)
(* compute_attention                                                       *)
(***************************************************************************)
\* C1: for every valid input (N keys of the query's dimension, N values,
\* temperature > 0) compute_attention returns weights and an aggregate with
\* weights[i] = exp(score[i]) / sum_j exp(score[j]),
\* score[i] = dot(keys[i], query) / temperature, and
\* aggregate = sum_i values[i] * weights[i], all in float arithmetic.
C1_SoftmaxFormula ==
  (IsCA /\ ValidInput) =>
    /\ last.out.kind = "ok"
    /\ Len(last.out.weights) = N
    /\ \A i \in Items : last.out.weights[i] = FDiv(FExp(Score(i)), ExpSum)
    /\ last.out.weighted_sum =
         np_sum([i \in Items |-> FMul(last.values[i], last.out.weights[i])])

\* a valid call at a temperature other than 1 whose items got different weights
C1_Witness ==
  /\ IsCA /\ ValidInput /\ last.out.kind = "ok"
  /\ last.temperature # Num(1)
  /\ \E i, j \in Items : FLt(last.out.weights[i], last.out.weights[j])

\* C2 as stated: for all valid inputs every weight is non-negative and the
\* weights sum to 1 within a small epsilon.
C2_AsStated ==
  (IsCA /\ ValidInput) =>
    /\ last.out.kind = "ok"
    /\ \A i \in Items : FLe(Zero, last.out.weights[i])
    /\ SumsToOne(last.out.weights)

\* C2, amended: for all valid inputs whose sum of exponentials is finite and
\* not zero, every weight is non-negative and the weights sum to 1 within
\* rounding error (at most N units in the last place).
C2_Distribution ==
  (IsCA /\ ValidInput /\ Stable) =>
    /\ last.out.kind = "ok"
    /\ \A i \in Items : FLe(Zero, last.out.weights[i])
    /\ SumsToOne(last.out.weights)

\* a valid, stable call on several items with unequal weights whose rounded
\* sum is not exactly 1
C2_Witness ==
  /\ IsCA /\ ValidInput /\ Stable /\ last.out.kind = "ok"
  /\ N >= 2
  /\ \E i, j \in Items : FLt(last.out.weights[i], last.out.weights[j])
  /\ np_sum(last.out.weights) # Num(1)

\* C4 as stated: compute_attention fails, returning nothing, whenever a key
\* and the query differ in length or len(keys) # len(values).
C4_DimensionMismatch ==
  (IsCA /\ ~ShapesAgree) => last.out.kind # "ok"

\* C5 as stated: compute_attention fails for every temperature <= 0.
C5_InvalidTemperature ==
  (IsCA /\ ~FLt(Zero, last.temperature)) => last.out.kind # "ok"

\* the concrete scenario of C8
Scenario ==
  /\ IsCA
  /\ last.keys = << <<Num(1), Zero>>, <<Zero, Num(1)>> >>
  /\ last.query = <<Num(1), Zero>>
  /\ last.values = <<Num(10), Num(20)>>
  /\ last.temperature = Num(1)

ScenarioWeights ==
  /\ last.out.kind = "ok"
  /\ Len(last.out.weights) = 2
  /\ Score(1) = Num(1) /\ Score(2) = Zero
  /\ GeDec(last.out.weights[1], 7305, 4) /\ LeDec(last.out.weights[1], 7315, 4)
  /\ GeDec(last.out.weights[2], 2685, 4) /\ LeDec(last.out.weights[2], 2695, 4)

\* C8 as stated: keys=[[1,0],[0,1]], query=[1,0], values=[10,20],
\* temperature=1.0 gives score=[1,0], weights about [0.731, 0.269] and an
\* aggregate of about 12.62 (to the digits given).
C8_AsStated ==
  Scenario =>
    /\ ScenarioWeights
    /\ GeDec(last.out.weighted_sum, 12615, 3)
    /\ LeDec(last.out.weighted_sum, 12625, 3)

\* C8, amended: the same input gives score=[1,0], weights about
\* [0.731, 0.269] and an aggregate of about 12.69.
C8_Scenario ==
  Scenario =>
    /\ ScenarioWeights
    /\ GeDec(last.out.weighted_sum, 12685, 3)
    /\ LeDec(last.out.weighted_sum, 12695, 3)

C8_Witness == Scenario /\ last.out.kind = "ok"

\* C9: for all valid inputs the weights have one entry per item,
\* len(weights) = len(keys) = len(values).
C9_OneWeightPerItem ==
  (IsCA /\ ValidInput) =>
    /\ last.out.kind = "ok"
    /\ Len(last.out.weights) = Len(last.keys)
    /\ Len(last.keys) = Len(last.values)

\* a valid call on more items than the vectors have features
C9_Witness ==
  /\ IsCA /\ ValidInput /\ last.out.kind = "ok"
  /\ Len(last.keys) > Len(last.query)

OrderPreserved ==
  \A i, j \in Items :
    FLe(Similarity(j), Similarity(i)) =>
      FLe(last.out.weights[j], last.out.weights[i])

NumProjections == Len(projection_matrices)

\* v . P, the vector-matrix product
VecMat(v, P) ==
  [j \in 1..Len(P[1]) |-> np_sum([k \in 1..Len(v) |-> FMul(v[k], P[k][j])])]

\* the single-head scorer's weights on the keys and the query projected by
\* Projection[h]
HeadWeights(h) ==
  compute_attention([i \in Items |-> VecMat(last.keys[i], projection_matrices[h])],
                    VecMat(last.query, projection_matrices[h]),
                    last.values, last.temperature).weights

\* mean over the heads of values[i] * weights_h[i]
MeanContribution(i) ==
  FDiv(np_sum([h \in 1..last.n_heads |->
                 FMul(last.values[i], HeadWeights(h)[i])]),
       Num(last.n_heads))

\* a valid input of the wrapper: a valid input of the scorer whose vectors
\* have the dimension of the projection matrices
ValidHeadInput ==
  /\ ValidInput
  /\ Len(last.query) = Len(projection_matrices[1])

\* C3 as stated: multi_head_attention returns a per-item vector final with
\* final[i] the mean over the heads of values[i] * weights_h[i]; for
\* n_heads = 1 that is values[i] * weights[i] of the single head.
C3_MeanOverHeads ==
  (IsMH /\ ValidHeadInput /\ last.n_heads <= NumProjections) =>
    /\ last.out.kind = "ok"
    /\ Len(last.out.final_ratings) = N
    /\ \A i \in Items : last.out.final_ratings[i] = MeanContribution(i)
    /\ last.n_heads = 1 =>
         \A i \in Items :
           last.out.final_ratings[i] = FMul(last.values[i], HeadWeights(1)[i])

\* C6 as stated: multi_head_attention fails with MissingProjection (a
\* KeyError of projection_matrices) exactly when n_heads exceeds the number
\* of projection matrices, and returns a result for every n_heads from 1 to
\* that number on otherwise valid inputs.
C6_MissingProjection ==
  (IsMH /\ ValidHeadInput) =>
    /\ last.out.kind = "KeyError" <=> last.n_heads > NumProjections
    /\ last.n_heads \in 1..NumProjections => last.out.kind = "ok"

\* module-level data other than the notebook's: the same books with other
\* ratings, and a namespace in which attention_per_head is bound (to uniform
\* weights for MaxHeads heads)
OtherBooks ==
  [i \in 1..Len(books) |-> [books[i] EXCEPT !.rating = Num(1)]]

UniformHeads ==
  [bound |-> TRUE,
   val   |-> [h \in 1..MaxHeads |-> [i \in 1..Len(books) |-> Dec(2, -1)]]]

ModuleData ==
  {[books |-> b, attention_per_head |-> a] :
     b \in {books, OtherBooks}, a \in {Unbound, UniformHeads}}

\* C7 as stated: a call modifies neither its arguments nor shared state, and
\* its outcome is determined by its arguments alone, whatever the
\* module-level data (the books dictionary, any other module-level name).
C7_PureFunctions ==
  /\ last.fn # "none" =>
       /\ keys = last.keys /\ query = last.query /\ values = last.values
       /\ globals = NotebookGlobals
  /\ IsCA =>
       last.out = compute_attention(last.keys, last.query, last.values,
                                    last.temperature)
  /\ IsMH =>
       \A G \in ModuleData :
         multi_head_attention(G, last.keys, last.query, last.values,
                              last.n_heads, last.temperature) = last.out

====
